---------------------------- MODULE Spec2Model ----------------------------
(***************************************************************************)
(* A model of src/src/App.jsx (netsuite-bi): the four upload handlers, the *)
(* field picker, the dataset normalizers and the derived-metrics memo.     *)
(*                                                                         *)
(* Strings are TLA+ strings, handled character by character, so that the   *)
(* case folding, trimming, prefix, suffix and substring tests of the code  *)
(* are computed and not assumed.  JavaScript numbers are modelled by       *)
(* integers plus NaN in the datasets, and by exact fractions plus Infinity *)
(* and NaN in the derived metrics.  The sales mapping is a plain object:   *)
(* a lookup under a name inherited from Object.prototype finds a value.    *)
(***************************************************************************)
EXTENDS Integers, Sequences, FiniteSets, TLC

-----------------------------------------------------------------------------
(* Strings *)

DigitChars == "0123456789"

CharAt(s, i) == SubSeq(s, i, i)

\* String.prototype.toLowerCase, one character
LowerChar(c) ==
  CASE c = "A" -> "a" [] c = "B" -> "b" [] c = "C" -> "c" [] c = "D" -> "d"
    [] c = "E" -> "e" [] c = "F" -> "f" [] c = "G" -> "g" [] c = "H" -> "h"
    [] c = "I" -> "i" [] c = "J" -> "j" [] c = "K" -> "k" [] c = "L" -> "l"
    [] c = "M" -> "m" [] c = "N" -> "n" [] c = "O" -> "o" [] c = "P" -> "p"
    [] c = "Q" -> "q" [] c = "R" -> "r" [] c = "S" -> "s" [] c = "T" -> "t"
    [] c = "U" -> "u" [] c = "V" -> "v" [] c = "W" -> "w" [] c = "X" -> "x"
    [] c = "Y" -> "y" [] c = "Z" -> "z"
    [] OTHER -> c

RECURSIVE ToLowerCase(_)
ToLowerCase(s) ==
  IF Len(s) = 0 THEN ""
  ELSE LowerChar(CharAt(s, 1)) \o ToLowerCase(SubSeq(s, 2, Len(s)))

RECURSIVE TrimStart(_)
TrimStart(s) ==
  IF Len(s) > 0 /\ CharAt(s, 1) = " " THEN TrimStart(SubSeq(s, 2, Len(s))) ELSE s

RECURSIVE TrimEnd(_)
TrimEnd(s) ==
  IF Len(s) > 0 /\ CharAt(s, Len(s)) = " "
  THEN TrimEnd(SubSeq(s, 1, Len(s) - 1)) ELSE s

\* String.prototype.trim
Trim(s) == TrimEnd(TrimStart(s))

\* String.prototype.startsWith / a regular expression anchored with ^
StartsWith(s, p) == Len(p) <= Len(s) /\ SubSeq(s, 1, Len(p)) = p

\* String.prototype.endsWith
EndsWith(s, e) ==
  Len(e) <= Len(s) /\ SubSeq(s, Len(s) - Len(e) + 1, Len(s)) = e

\* String.prototype.includes
Includes(s, sub) ==
  \E i \in 1..(Len(s) - Len(sub) + 1) : SubSeq(s, i, i + Len(sub) - 1) = sub

\* s.split(sep)[0]: the part of s before the first occurrence of sep
SplitFirst(s, sep) ==
  IF Includes(s, sep)
  THEN LET i == CHOOSE k \in 1..(Len(s) - Len(sep) + 1) :
                  /\ SubSeq(s, k, k + Len(sep) - 1) = sep
                  /\ \A j \in 1..(k - 1) : SubSeq(s, j, j + Len(sep) - 1) # sep
       IN  SubSeq(s, 1, i - 1)
  ELSE s

IsDigit(c) == \E i \in 1..10 : CharAt(DigitChars, i) = c
DigitVal(c) == (CHOOSE i \in 1..10 : CharAt(DigitChars, i) = c) - 1

RECURSIVE DigitsToNat(_)
DigitsToNat(s) ==
  IF Len(s) = 0 THEN 0
  ELSE 10 * DigitsToNat(SubSeq(s, 1, Len(s) - 1)) + DigitVal(CharAt(s, Len(s)))

AllDigits(s) == Len(s) > 0 /\ \A i \in 1..Len(s) : IsDigit(CharAt(s, i))

RECURSIVE NatToStr(_)
NatToStr(n) ==
  IF n < 10 THEN CharAt(DigitChars, n + 1)
  ELSE NatToStr(n \div 10) \o CharAt(DigitChars, (n % 10) + 1)

-----------------------------------------------------------------------------
(* JavaScript values held in cells and fields: numbers (exact fractions    *)
(* n/d, +Infinity, -Infinity, NaN), strings, null and undefined.           *)

RECURSIVE GCD(_, _)
GCD(a, b) == IF b = 0 THEN a ELSE GCD(b, a % b)

Abs(n) == IF n < 0 THEN 0 - n ELSE n

\* the number n/d (d # 0) in lowest terms with a positive denominator
Frac(n, d) ==
  LET g == GCD(Abs(n), Abs(d))
      sg == IF d < 0 THEN -1 ELSE 1
  IN  [t |-> "num", n |-> sg * (n \div g), d |-> Abs(d) \div g, s |-> ""]

Num(n)   == [t |-> "num", n |-> n, d |-> 1, s |-> ""]
Str(s)   == [t |-> "str", n |-> 0, d |-> 1, s |-> s]
NaN      == [t |-> "nan", n |-> 0, d |-> 1, s |-> ""]
Infinity == [t |-> "inf", n |-> 1, d |-> 1, s |-> ""]
NegInfinity == [t |-> "inf", n |-> -1, d |-> 1, s |-> ""]
Null     == [t |-> "null", n |-> 0, d |-> 1, s |-> ""]
Undef    == [t |-> "undef", n |-> 0, d |-> 1, s |-> ""]

IsNaN(v) == v.t = "nan"
IsNumeric(v) == v.t \in {"num", "inf"}
Sign(v) == IF v.n > 0 THEN 1 ELSE IF v.n < 0 THEN -1 ELSE 0
Signed(sg) == IF sg = 0 THEN NaN ELSE IF sg > 0 THEN Infinity ELSE NegInfinity

RECURSIVE Pow10(_)
Pow10(k) == IF k = 0 THEN 1 ELSE 10 * Pow10(k - 1)

\* the value of an unsigned decimal literal ("12", "12.5"), or NaN
Unsigned(w) ==
  IF AllDigits(w) THEN Num(DigitsToNat(w))
  ELSE IF \E i \in 2..(Len(w) - 1) :
            /\ CharAt(w, i) = "."
            /\ AllDigits(SubSeq(w, 1, i - 1))
            /\ AllDigits(SubSeq(w, i + 1, Len(w)))
       THEN LET i == CHOOSE k \in 2..(Len(w) - 1) : CharAt(w, k) = "."
                fr == SubSeq(w, i + 1, Len(w))
            IN  Frac(DigitsToNat(SubSeq(w, 1, i - 1)) * Pow10(Len(fr))
                       + DigitsToNat(fr), Pow10(Len(fr)))
       ELSE NaN

\* Number(v)
ToNumber(v) ==
  CASE v.t \in {"num", "inf", "nan"} -> v
    [] v.t = "null" -> Num(0)
    [] v.t = "undef" -> NaN
    [] v.t = "str" ->
         LET w == Trim(v.s) IN
         IF Len(w) = 0 THEN Num(0)
         ELSE IF CharAt(w, 1) = "-"
              THEN LET u == Unsigned(SubSeq(w, 2, Len(w)))
                   IN  IF u.t = "num" THEN Frac(0 - u.n, u.d) ELSE NaN
              ELSE Unsigned(w)

\* String(v); numbers held in cells are integers
StringOf(v) ==
  CASE v.t = "str" -> v.s
    [] v.t = "num" -> IF v.n < 0 THEN "-" \o NatToStr(0 - v.n) ELSE NatToStr(v.n)
    [] v.t = "inf" -> IF v.n < 0 THEN "-Infinity" ELSE "Infinity"
    [] v.t = "nan" -> "NaN"
    [] v.t = "null" -> "null"
    [] v.t = "undef" -> "undefined"

\* the truthiness of v, as ||, ! and ?: read it
Truthy(v) ==
  CASE v.t = "num" -> v.n # 0
    [] v.t = "inf" -> TRUE
    [] v.t = "str" -> Len(v.s) > 0
    [] OTHER -> FALSE

\* a || b
Or(a, b) == IF Truthy(a) THEN a ELSE b

\* a > b on numbers: false when either side is NaN
Gt(a, b) ==
  /\ IsNumeric(a) /\ IsNumeric(b)
  /\ CASE a.t = "inf" /\ b.t = "inf" -> a.n > b.n
       [] a.t = "inf" -> a.n > 0
       [] b.t = "inf" -> b.n < 0
       [] OTHER -> a.n * b.d > b.n * a.d

\* a <= b on numbers: false when either side is NaN
Le(a, b) == IsNumeric(a) /\ IsNumeric(b) /\ ~Gt(a, b)

Neg(a) == IF IsNumeric(a) THEN [a EXCEPT !.n = 0 - a.n] ELSE NaN

Add(a, b) ==
  IF ~(IsNumeric(a) /\ IsNumeric(b)) THEN NaN
  ELSE IF a.t = "inf" /\ b.t = "inf" THEN (IF a.n = b.n THEN a ELSE NaN)
  ELSE IF a.t = "inf" THEN a
  ELSE IF b.t = "inf" THEN b
  ELSE Frac(a.n * b.d + b.n * a.d, a.d * b.d)

Sub(a, b) == Add(a, Neg(b))

Mul(a, b) ==
  IF ~(IsNumeric(a) /\ IsNumeric(b)) THEN NaN
  ELSE IF a.t = "inf" \/ b.t = "inf" THEN Signed(Sign(a) * Sign(b))
  ELSE Frac(a.n * b.n, a.d * b.d)

Div(a, b) ==
  IF ~(IsNumeric(a) /\ IsNumeric(b)) THEN NaN
  ELSE IF a.t = "inf" /\ b.t = "inf" THEN NaN
  ELSE IF a.t = "inf" THEN Signed(IF Sign(b) < 0 THEN 0 - Sign(a) ELSE Sign(a))
  ELSE IF b.t = "inf" THEN Num(0)
  ELSE IF b.n = 0 THEN Signed(Sign(a))
  ELSE Frac(a.n * b.d, a.d * b.n)

\* Math.max(a, b)
MathMax(a, b) ==
  IF ~(IsNumeric(a) /\ IsNumeric(b)) THEN NaN ELSE IF Gt(b, a) THEN b ELSE a

\* Math.round(a): the integer nearest to a, halves rounded up
MathRound(a) ==
  IF a.t = "num" THEN Num((2 * a.n + a.d) \div (2 * a.d)) ELSE a

RECURSIVE ISqrt(_)
ISqrt(n) ==
  IF n < 2 THEN n
  ELSE LET r == 2 * ISqrt(n \div 4)
       IN  IF (r + 1) * (r + 1) <= n THEN r + 1 ELSE r

\* Math.round(Math.sqrt(a))
RoundSqrt(a) ==
  IF a.t = "num"
  THEN IF a.n < 0 THEN NaN ELSE Num((ISqrt((4 * a.n) \div a.d) + 1) \div 2)
  ELSE IF a.t = "inf" /\ a.n > 0 THEN a ELSE NaN

-----------------------------------------------------------------------------
(* Tabular Reader.  A file is [name, ok, grid]: ok says whether its decode *)
(* succeeds, grid is the table it holds, a sequence of rows of cells       *)
(* (Num, Str, the empty cell being Str("")).                               *)

EmptyCell == Str("")

\* Papa.parse dynamicTyping: numeric text becomes a number, "" becomes null
DynamicType(c) ==
  IF c.t = "str"
  THEN IF Len(c.s) = 0 THEN Null
       ELSE IF Len(Trim(c.s)) > 0 /\ ToNumber(c).t = "num" THEN ToNumber(c) ELSE c
  ELSE c

Min(a, b) == IF a < b THEN a ELSE b

\* the array with the elements f[1], ..., f[Len(f)], each evaluated once
Array(f) == f \o <<>>

\* An object is the sequence of its [k, v] entries in insertion order.
Get(obj, key) ==
  IF \E i \in 1..Len(obj) : obj[i].k = key
  THEN obj[CHOOSE i \in 1..Len(obj) : obj[i].k = key].v
  ELSE Undef

\* obj[key] = v: a new key is appended, an old key keeps its place
Put(obj, key, v) ==
  IF \E i \in 1..Len(obj) : obj[i].k = key
  THEN Array([i \in 1..Len(obj) |->
                IF obj[i].k = key THEN [k |-> key, v |-> v] ELSE obj[i]])
  ELSE Append(obj, [k |-> key, v |-> v])

RECURSIVE FromEntries(_)
FromEntries(es) ==
  IF Len(es) = 0 THEN <<>>
  ELSE Put(FromEntries(SubSeq(es, 1, Len(es) - 1)), es[Len(es)].k, es[Len(es)].v)

\* parseCSV on a decodable file: header: true, dynamicTyping: true,
\* skipEmptyLines: true; one object per data row, keyed by the first row
RowIsEmpty(r) == Len(r) = 0 \/ (Len(r) = 1 /\ r[1] = EmptyCell)

ParseCSVRows(grid) ==
  LET lines == SelectSeq(grid, LAMBDA r : ~RowIsEmpty(r)) IN
  IF Len(lines) = 0 THEN <<>>
  ELSE LET hdr == lines[1] IN
       Array([j \in 1..(Len(lines) - 1) |->
          FromEntries(Array([i \in 1..Min(Len(hdr), Len(lines[j + 1])) |->
             [k |-> StringOf(hdr[i]), v |-> DynamicType(lines[j + 1][i])]]))])

\* XLSX.utils.sheet_to_json(ws, {range: from, header: 1, raw: true, defval: ""})
\* on the first sheet of a decodable workbook: the rows from index `from` on
SheetRows(grid, from) == SubSeq(grid, from + 1, Len(grid))

\* r[i] on a JavaScript array (0-based), undefined outside it
At(r, i) == IF i >= 0 /\ i < Len(r) THEN r[i + 1] ELSE Undef

-----------------------------------------------------------------------------
(* Field Picker and Header Resolver *)

lowerKeys(obj) ==
  FromEntries(Array([i \in 1..Len(obj) |->
                       [k |-> Trim(ToLowerCase(obj[i].k)), v |-> obj[i].v]]))

AnyAlias(keys, P(_)) == \E j \in 1..Len(keys) : P(keys[j])

\* a variant of pick that tries the contains phase before the exact phase
pickContainsFirst(obj, keys) ==
  LET l == lowerKeys(obj)
      norm(k) == Trim(ToLowerCase(k))
      exact == {j \in 1..Len(keys) : Get(l, norm(keys[j])) # Undef}
      cont == {i \in 1..Len(l) :
                 \E j \in 1..Len(keys) : Includes(l[i].k, norm(keys[j]))}
      least(S) == CHOOSE m \in S : \A n \in S : m <= n
  IN  IF cont # {} THEN l[least(cont)].v
      ELSE IF exact # {} THEN Get(l, norm(keys[least(exact)]))
      ELSE Undef

pick(obj, keys) ==
  LET l == lowerKeys(obj)
      norm(k) == Trim(ToLowerCase(k))
      exact == {j \in 1..Len(keys) : Get(l, norm(keys[j])) # Undef}
      cont == {i \in 1..Len(l) :
                 AnyAlias(keys, LAMBDA cand : Includes(l[i].k, norm(cand)))}
      least(S) == CHOOSE m \in S : \A n \in S : m <= n
  IN  IF exact # {} THEN Get(l, norm(keys[least(exact)]))
      ELSE IF cont # {} THEN l[least(cont)].v
      ELSE Undef

\* the 0-based column index, or -1
findCol(headerArr, candidates) ==
  LET lower == Array([i \in 1..Len(headerArr) |-> ToLowerCase(headerArr[i])])
      indexOf(c) == IF \E i \in 1..Len(lower) : lower[i] = c
                    THEN (CHOOSE i \in 1..Len(lower) :
                            lower[i] = c /\ \A j \in 1..(i - 1) : lower[j] # c) - 1
                    ELSE -1
      exact == {j \in 1..Len(candidates) : indexOf(ToLowerCase(candidates[j])) # -1}
      cont == {i \in 1..Len(lower) :
                 AnyAlias(candidates, LAMBDA c : Includes(lower[i], ToLowerCase(c)))}
      least(S) == CHOOSE m \in S : \A n \in S : m <= n
  IN  IF exact # {} THEN indexOf(ToLowerCase(candidates[least(exact)]))
      ELSE IF cont # {} THEN least(cont) - 1
      ELSE -1

HeaderScanRows == 30

\* String(x ?? "").toLowerCase()
LowerCell(x) ==
  ToLowerCase(StringOf(IF x.t \in {"null", "undef"} THEN Str("") ELSE x))

\* a variant of findHeaderRow that scans every row of the sheet
findHeaderRowWholeSheet(grid, expectedHeaders) ==
  LET cells(i) == {LowerCell(grid[i][c]) : c \in 1..Len(grid[i])}
      hits(i) == Cardinality({h \in 1..Len(expectedHeaders) :
                                ToLowerCase(expectedHeaders[h]) \in cells(i)})
      need == (Len(expectedHeaders) + 1) \div 2
      good == {i \in 1..Len(grid) : hits(i) >= need}
  IN  IF good # {} THEN (CHOOSE m \in good : \A n \in good : m <= n) - 1 ELSE 0

\* the 0-based index of the header row
findHeaderRow(grid, expectedHeaders) ==
  LET cells(i) == {LowerCell(grid[i][c]) : c \in 1..Len(grid[i])}
      hits(i) == Cardinality({h \in 1..Len(expectedHeaders) :
                                ToLowerCase(expectedHeaders[h]) \in cells(i)})
      need == (Len(expectedHeaders) + 1) \div 2
      good == {i \in 1..Min(Len(grid), HeaderScanRows) : hits(i) >= need}
  IN  IF good # {} THEN (CHOOSE m \in good : \A n \in good : m <= n) - 1 ELSE 0

\* raw[0].map((h) => String(h || "").trim())
HeaderOf(raw) ==
  IF Len(raw) = 0 THEN <<>>
  ELSE Array([i \in 1..Len(raw[1]) |-> Trim(StringOf(Or(raw[1][i], Str(""))))])

-----------------------------------------------------------------------------
(* Dataset Normalizers *)

\* arr.sort(cmp) for a consistent comparator: a stable sort; After(a, b)
\* says cmp(a, b) > 0, that is, a must come after b.  The element at index i
\* lands behind every element that must come before it and every earlier
\* element it ties with.
SortStable(seq, After(_, _)) ==
  LET ahead(i) == {j \in 1..Len(seq) :
                     \/ After(seq[i], seq[j])
                     \/ (j < i /\ ~After(seq[j], seq[i]))}
      rank(i) == Cardinality(ahead(i)) + 1
  IN  Array([r \in 1..Len(seq) |-> seq[CHOOSE i \in 1..Len(seq) : rank(i) = r]])

\* arr.map(f)
Map(seq, f(_)) == Array([i \in 1..Len(seq) |-> f(seq[i])])

\* Number(v) || 0
NumberOrZero(v) == Or(ToNumber(v), Num(0))

\* Number(v || 0)
NumberOfOrZero(v) == ToNumber(Or(v, Num(0)))

\* String(v || "")
StringOrEmpty(v) == StringOf(Or(v, Str("")))

\* v != null
NotNullish(v) == v.t \notin {"null", "undef"}

\* /^total - /i.test(s) and s.replace(/^total - /i, "")
TotalPrefix == "total - "
HasTotalPrefix(s) == StartsWith(ToLowerCase(s), TotalPrefix)
StripTotalPrefix(s) ==
  IF HasTotalPrefix(s) THEN SubSeq(s, Len(TotalPrefix) + 1, Len(s)) ELSE s

\* a variant of IsIntercompanyCustomer that knows the two spelled-out forms only
IsIntercompanyCustomerByWord(s) ==
  LET l == ToLowerCase(s)
  IN  Includes(l, "intercompany") \/ Includes(l, "inter-company")

\* /ic-|intercompany|inter-company/i.test(s)
IsIntercompanyCustomer(s) ==
  LET l == ToLowerCase(s)
  IN  Includes(l, "ic-") \/ Includes(l, "intercompany") \/ Includes(l, "inter-company")

\* /internal|intercompany/i.test(s)
IsInternalSupplier(s) ==
  LET l == ToLowerCase(s) IN Includes(l, "internal") \/ Includes(l, "intercompany")

\* handleCost, one accepted row
CostItemOf(row) ==
  LET fullItem == StringOrEmpty(pick(row, <<"Item">>))
      unitPrice == NumberOrZero(pick(row, <<"Average Item Rate">>))
      unitCost == NumberOrZero(pick(row, <<"Average of Est. Unit Cost">>))
      qty == NumberOrZero(pick(row, <<"Quantity", "Qty">>))
      profitPerUnit == IF Gt(unitPrice, Num(0)) THEN Sub(unitPrice, unitCost) ELSE Num(0)
      profitMargin == IF Gt(unitPrice, Num(0))
                      THEN Mul(Div(Sub(unitPrice, unitCost), unitPrice), Num(100))
                      ELSE Num(0)
  IN  [fullItem |-> fullItem,
       itemCode |-> IF Len(fullItem) > 0 THEN SplitFirst(fullItem, " : ") ELSE "",
       itemType |-> IF Includes(ToLowerCase(fullItem), "recert") THEN "ReCert" ELSE "New",
       unitPrice |-> unitPrice, unitCost |-> unitCost, Quantity |-> qty,
       profitPerUnit |-> profitPerUnit, profitMargin |-> profitMargin,
       totalProfit |-> Mul(profitPerUnit, qty),
       totalRevenue |-> Mul(unitPrice, qty),
       totalCost |-> Mul(unitCost, qty)]

CostRowAccepted(row) ==
  /\ NotNullish(pick(row, <<"Average Item Rate">>))
  /\ NotNullish(pick(row, <<"Average of Est. Unit Cost">>))

NormalizeCost(rows) == Map(SelectSeq(rows, CostRowAccepted), CostItemOf)

\* the aliases of the sales fields
SalesItemCsv == <<"Item", "Inventory Item", "Item Name">>
SalesItemXls == <<"Item", "Inventory Item", "Item Name", "Product">>
SalesDesc == <<"Description", "ItemDesc", "Name", "Memo">>
SalesQty == <<"Qty", "QtySold", "Quantity", "Quantity Sold">>
SalesRev == <<"TotalRevenue", "Amount", "Total", "Net Amount", "Sales Amount">>

\* the names a plain object (`{}`) inherits from Object.prototype: obj[name] is
\* then a function (for __proto__, the prototype object), which is truthy and
\* whose totalQtySold and totalRevenue read as undefined
ObjectPrototypeKeys ==
  {"constructor", "hasOwnProperty", "isPrototypeOf", "propertyIsEnumerable",
   "toLocaleString", "toString", "valueOf", "__proto__"}

SalesRowAccepted(item, qty) ==
  Len(item) > 0 /\ Gt(qty, Num(0)) /\ item # "Inventory Item"

\* `if (!byItem[item]) byItem[item] = {...}` then the two `+=`; under an
\* inherited name byItem[item] is truthy, no entry is made and the `+=` land
\* on the inherited object
SalesAccumulate(byItem, item, desc, qty, revenue) ==
  IF SalesRowAccepted(item, qty) /\ item \notin ObjectPrototypeKeys
  THEN LET old == IF item \in DOMAIN byItem THEN byItem[item]
                  ELSE [item |-> item, description |-> desc,
                        totalQtySold |-> Num(0), totalRevenue |-> Num(0)]
           new == [old EXCEPT !.totalQtySold = Add(@, qty),
                              !.totalRevenue = Add(@, revenue)]
       IN  [k \in DOMAIN byItem \cup {item} |-> IF k = item THEN new ELSE byItem[k]]
  ELSE byItem

RECURSIVE SalesFromRows(_)
SalesFromRows(rows) ==
  IF Len(rows) = 0 THEN <<>>
  ELSE LET row == rows[Len(rows)] IN
       SalesAccumulate(SalesFromRows(SubSeq(rows, 1, Len(rows) - 1)),
         Trim(StringOrEmpty(pick(row, SalesItemCsv))),
         StringOrEmpty(pick(row, SalesDesc)),
         NumberOrZero(pick(row, SalesQty)),
         NumberOrZero(pick(row, SalesRev)))

RECURSIVE SalesFromGridRows(_, _)
SalesFromGridRows(rs, idx) ==
  IF Len(rs) = 0 THEN <<>>
  ELSE LET r == rs[Len(rs)] IN
       SalesAccumulate(SalesFromGridRows(SubSeq(rs, 1, Len(rs) - 1), idx),
         Trim(StringOrEmpty(At(r, idx.item))),
         StringOrEmpty(At(r, idx.desc)),
         NumberOfOrZero(At(r, idx.qty)),
         NumberOfOrZero(At(r, idx.rev)))

SalesExpected == <<"item", "qty", "quantity", "amount", "total", "description">>

SalesFromSheet(grid) ==
  LET raw == SheetRows(grid, findHeaderRow(grid, SalesExpected))
      header == HeaderOf(raw)
      idx == [item |-> findCol(header, SalesItemXls),
              desc |-> findCol(header, SalesDesc),
              qty |-> findCol(header, SalesQty),
              rev |-> findCol(header, SalesRev)]
  IN  SalesFromGridRows(SubSeq(raw, 2, Len(raw)), idx)

\* the aliases of the customer fields
CustomerName == <<"Customer", "Name">>
CustomerAmount == <<"Total", "Amount", "Net Amount", "TotalRevenue">>
CustomerExpected == <<"customer", "amount", "total", "net amount">>

\* the chain .filter .map .filter .sort that both paths of handleCustomer
\* apply to their {customer, amount} records
CustomerTotals(recs) ==
  LET kept == SelectSeq(recs, LAMBDA r : HasTotalPrefix(r.customer) /\ Gt(r.amount, Num(0)))
      named == Map(kept, LAMBDA r : [customer |-> StripTotalPrefix(r.customer),
                                     totalRevenue |-> r.amount])
      ext == SelectSeq(named, LAMBDA c : ~IsIntercompanyCustomer(c.customer))
  IN  SortStable(ext, LAMBDA a, b : Gt(Sub(b.totalRevenue, a.totalRevenue), Num(0)))

CustomerFromRows(rows) ==
  CustomerTotals(Map(rows, LAMBDA r :
    [customer |-> StringOrEmpty(pick(r, CustomerName)),
     amount |-> NumberOfOrZero(pick(r, CustomerAmount))]))

CustomerFromSheet(grid) ==
  LET raw == SheetRows(grid, findHeaderRow(grid, CustomerExpected))
      header == HeaderOf(raw)
      iCustomer == findCol(header, CustomerName)
      iAmount == findCol(header, CustomerAmount)
  IN  CustomerTotals(Map(SubSeq(raw, 2, Len(raw)), LAMBDA r :
        [customer |-> StringOrEmpty(At(r, iCustomer)),
         amount |-> NumberOfOrZero(At(r, iAmount))]))

\* the aliases of the supplier fields
SupplierVendor == <<"Vendor", "Supplier", "Name">>
SupplierItem == <<"Item", "Item Name", "Product">>
SupplierTotal == <<"TotalCost", "Amount", "Total", "Net Amount">>
SupplierQty == <<"Quantity", "Qty">>
SupplierExpected == <<"vendor", "supplier", "item", "quantity", "amount", "total">>

BySupplierCost(a, b) == Gt(Sub(b.totalCost, a.totalCost), Num(0))

SupplierFromRows(rows) ==
  LET tot == Map(rows, LAMBDA r :
               [vendor |-> StringOrEmpty(pick(r, SupplierVendor)),
                total |-> NumberOfOrZero(pick(r, SupplierTotal)),
                qty |-> NumberOfOrZero(pick(r, SupplierQty))])
      kept == SelectSeq(tot, LAMBDA r : HasTotalPrefix(r.vendor) /\ Gt(r.total, Num(0)))
      named == Map(kept, LAMBDA r :
                 [supplier |-> StripTotalPrefix(r.vendor), totalCost |-> r.total,
                  totalQuantity |-> Or(r.qty, Num(0))])
      ext == SelectSeq(named, LAMBDA x :
                 Gt(x.totalCost, Num(0)) /\ ~IsInternalSupplier(x.supplier))
      lines == Map(rows, LAMBDA r :
                 [supplier |-> StringOrEmpty(pick(r, SupplierVendor)),
                  item |-> StringOrEmpty(pick(r, SupplierItem)),
                  totalCost |-> NumberOfOrZero(pick(r, SupplierTotal)),
                  quantity |-> NumberOfOrZero(pick(r, SupplierQty)),
                  date |-> pick(r, <<"Date">>)])
  IN  [suppliers |-> SortStable(ext, BySupplierCost),
       lineItems |-> SelectSeq(lines, LAMBDA r :
                       /\ Len(r.supplier) > 0 /\ ~HasTotalPrefix(r.supplier)
                       /\ Len(r.item) > 0 /\ Gt(r.totalCost, Num(0)))]

RECURSIVE SupplierFromGridRows(_, _)
SupplierFromGridRows(rs, idx) ==
  IF Len(rs) = 0 THEN [suppliers |-> <<>>, lineItems |-> <<>>]
  ELSE LET acc == SupplierFromGridRows(SubSeq(rs, 1, Len(rs) - 1), idx)
           r == rs[Len(rs)]
           vendor == StringOrEmpty(At(r, idx.vendor))
           item == StringOrEmpty(At(r, idx.item))
           total == NumberOfOrZero(At(r, idx.total))
           qty == NumberOfOrZero(At(r, idx.qty))
           name == StripTotalPrefix(vendor)
       IN  IF HasTotalPrefix(vendor) /\ Gt(total, Num(0))
           THEN IF Gt(total, Num(0)) /\ ~IsInternalSupplier(name)
                THEN [acc EXCEPT !.suppliers = Append(@,
                        [supplier |-> name, totalCost |-> total,
                         totalQuantity |-> Or(qty, Num(0))])]
                ELSE acc
           ELSE IF Len(vendor) > 0 /\ Len(item) > 0 /\ Gt(total, Num(0))
                THEN [acc EXCEPT !.lineItems = Append(@,
                        [supplier |-> vendor, item |-> item, totalCost |-> total,
                         quantity |-> Or(qty, Num(0))])]
                ELSE acc

SupplierFromSheet(grid) ==
  LET raw == SheetRows(grid, findHeaderRow(grid, SupplierExpected))
      header == HeaderOf(raw)
      idx == [vendor |-> findCol(header, SupplierVendor),
              item |-> findCol(header, SupplierItem),
              total |-> findCol(header, SupplierTotal),
              qty |-> findCol(header, SupplierQty)]
      acc == SupplierFromGridRows(SubSeq(raw, 2, Len(raw)), idx)
  IN  [acc EXCEPT !.suppliers = SortStable(@, BySupplierCost)]

-----------------------------------------------------------------------------
(* Derived-Metrics Engine: the body of the `computed` memo *)

\* v === 0
IsZero(v) == v.t = "num" /\ v.n = 0

\* the keys tried against salesMap, in the order of the || chain
SalesKeys(item) ==
  <<item.itemCode, item.itemCode \o "-New", item.itemCode \o "-ReCert", item.fullItem>>

\* salesMap[k1] || salesMap[k2] || salesMap[k3] || salesMap[k4] || null, then
\* s ? Number(s.totalQtySold) : 0; an aggregate, being an object, is truthy,
\* and so is what salesMap[k] reads under an inherited name
AnnualSales(item, sales) ==
  LET keys == SalesKeys(item)
      hit == {i \in 1..Len(keys) :
                keys[i] \in DOMAIN sales \/ keys[i] \in ObjectPrototypeKeys}
  IN  IF hit = {} THEN Num(0)
      ELSE LET k == keys[CHOOSE m \in hit : \A n \in hit : m <= n]
           IN  IF k \in DOMAIN sales THEN ToNumber(sales[k].totalQtySold)
               ELSE ToNumber(Undef)

DaysOfInventory(quantity, dailySales) ==
  IF Gt(dailySales, Num(0)) THEN Div(ToNumber(quantity), dailySales) ELSE Infinity

\* a variant of DaysUntilStockout without the `dailySales > 0` guard
DaysUntilStockoutUnguarded(quantity, dailySales) ==
  Div(ToNumber(quantity), dailySales)

DaysUntilStockout(quantity, dailySales) ==
  IF Gt(dailySales, Num(0)) THEN Div(ToNumber(quantity), dailySales) ELSE Infinity

DaysPerYear == 365
LeadTimeReCert == 28
LeadTimeNew == 21
MinSafetyDays == 7

DerivedItem(item, sales, th) ==
  LET annualSales == AnnualSales(item, sales)
      dailySales == Div(annualSales, Num(DaysPerYear))
      leadTimeDays == IF item.itemType = "ReCert" THEN Num(LeadTimeReCert)
                      ELSE Num(LeadTimeNew)
      safetyStock == Mul(dailySales, MathMax(Num(MinSafetyDays),
                                             MathRound(Div(leadTimeDays, Num(2)))))
      holdingCost == Mul(ToNumber(item.unitCost), th.holdingCostRate)
      targetPrice == IF Gt(ToNumber(item.unitCost), Num(0))
                     THEN Div(ToNumber(item.unitCost), Sub(Num(1), th.targetMargin))
                     ELSE Num(0)
      priceDelta == MathMax(Num(0), Sub(targetPrice, ToNumber(item.unitPrice)))
  IN  [annualSales |-> annualSales,
       dailySales |-> dailySales,
       daysOfInventory |-> DaysOfInventory(item.Quantity, dailySales),
       reorderPoint |-> Add(Mul(dailySales, leadTimeDays), safetyStock),
       daysUntilStockout |-> DaysUntilStockout(item.Quantity, dailySales),
       eoq |-> IF Gt(holdingCost, Num(0)) /\ Gt(annualSales, Num(0))
               THEN RoundSqrt(Div(Mul(Mul(Num(2), annualSales), th.orderingCost),
                                  holdingCost))
               ELSE MathRound(Mul(Div(annualSales, Num(12)), Num(3))),
       priceDelta |-> priceDelta,
       annualImpact |-> Mul(priceDelta, annualSales)] @@ item

ByTotalCostDesc(a, b) == Gt(Sub(b.totalCost, a.totalCost), Num(0))
ByStockoutAsc(a, b) == Gt(Sub(a.daysUntilStockout, b.daysUntilStockout), Num(0))
ByImpactDesc(a, b) == Gt(Sub(b.annualImpact, a.annualImpact), Num(0))

\* a variant of IsSlowMover asking for both conditions on the sales side
IsSlowMoverBothConditions(it, slowCost, slowDays) ==
  /\ Gt(it.totalCost, slowCost)
  /\ (Gt(it.daysOfInventory, slowDays) /\ IsZero(it.annualSales))
  /\ Gt(it.Quantity, Num(0))

\* a variant of IsSlowMover keeping the items below the cost threshold
IsSlowMoverBelowCost(it, slowCost, slowDays) ==
  /\ Gt(slowCost, it.totalCost)
  /\ (Gt(it.daysOfInventory, slowDays) \/ IsZero(it.annualSales))
  /\ Gt(it.Quantity, Num(0))

IsSlowMover(it, slowCost, slowDays) ==
  /\ Gt(it.totalCost, slowCost)
  /\ (Gt(it.daysOfInventory, slowDays) \/ IsZero(it.annualSales))
  /\ Gt(it.Quantity, Num(0))

SlowMovers(items, slowCost, slowDays) ==
  SortStable(SelectSeq(items, LAMBDA it : IsSlowMover(it, slowCost, slowDays)),
             ByTotalCostDesc)

DeadStock(items, deadCost) ==
  SortStable(SelectSeq(items, LAMBDA it :
               IsZero(it.annualSales) /\ Gt(it.totalCost, deadCost)
               /\ Gt(it.Quantity, Num(0))),
             ByTotalCostDesc)

CriticalDays == 30
CriticalCost == 1000
WarningDays == 60
WarningCost == 500
PriceOppRevenue == 5000

IsCriticalStockout(it) ==
  /\ Le(it.daysUntilStockout, Num(CriticalDays))
  /\ it.daysUntilStockout # Infinity
  /\ Gt(it.totalCost, Num(CriticalCost))

IsWarningStockout(it) ==
  /\ Gt(it.daysUntilStockout, Num(CriticalDays))
  /\ Le(it.daysUntilStockout, Num(WarningDays))
  /\ Gt(it.totalCost, Num(WarningCost))

CriticalStockouts(items) == SortStable(SelectSeq(items, IsCriticalStockout), ByStockoutAsc)
WarningStockouts(items) == SortStable(SelectSeq(items, IsWarningStockout), ByStockoutAsc)

PriceOpps(items) ==
  SortStable(SelectSeq(items, LAMBDA it :
               Gt(it.priceDelta, Num(0)) /\ Gt(it.annualSales, Num(0))
               /\ Gt(it.totalRevenue, Num(PriceOppRevenue))),
             ByImpactDesc)

\* the value of `computed`: null while costData is empty
NoComputed ==
  [isNull |-> TRUE, items |-> <<>>, slowMovers |-> <<>>, deadStock |-> <<>>,
   criticalStockouts |-> <<>>, warningStockouts |-> <<>>, priceOpps |-> <<>>]

Computed(cost, sales, th) ==
  IF Len(cost) = 0 THEN NoComputed
  ELSE CHOOSE out \in
         { [isNull |-> FALSE, items |-> items,
            slowMovers |-> SlowMovers(items, th.slowCost, th.slowDays),
            deadStock |-> DeadStock(items, th.deadCost),
            criticalStockouts |-> CriticalStockouts(items),
            warningStockouts |-> WarningStockouts(items),
            priceOpps |-> PriceOpps(items)]
           \* `const items = costData.map(...)`: built once, then filtered
           : items \in {Map(cost, LAMBDA item : DerivedItem(item, sales, th))} }
         : TRUE

\* a variant of ComputedDeps that leaves salesMap out of the list
ComputedDepsWithoutSales(cost, sales, th) ==
  <<cost, th.slowCost, th.deadCost, th.slowDays, th.targetMargin,
    th.orderingCost, th.holdingCostRate>>

\* the dependency list of the `computed` memo
ComputedDeps(cost, sales, th) ==
  <<cost, sales, th.slowCost, th.deadCost, th.slowDays, th.targetMargin,
    th.orderingCost, th.holdingCostRate>>

\* useMemo: the cached value is kept while the dependencies are the same
UseMemo(memo, deps, value) ==
  IF memo.deps = deps THEN memo ELSE [deps |-> deps, value |-> value]

-----------------------------------------------------------------------------
(* The files a user can hand to the four pickers *)

S(x) == Str(x)
N(x) == Num(x)

CostHeader == <<S("Item"), S("Average Item Rate"), S("Average of Est. Unit Cost"),
                S("Quantity")>>

CostGridA ==
  << CostHeader,
     <<S("ABC : ReCert Widget"), N(100), N(60), N(10)>>,
     <<S("XYZ"), N(50), N(500), N(3)>>,
     <<S("constructor"), N(20), N(10), N(2)>>,
     <<S("Total"), EmptyCell, EmptyCell, N(15)>> >>

CostGridB ==
  << CostHeader,
     <<S("DEF : Gadget"), N(0), N(250), N(2)>>,
     <<S("QQQ"), N(10), N(5), N(0)>>,
     <<S("NEG"), N(20), N(30), N(-4)>>,
     <<S("ABC : ReCert Widget"), N(100), N(60), S("n/a")>> >>

CostGridC ==
  << <<S("item"), S("Average Item Rate"), S("Average of Est. Unit Cost"), S("Qty")>>,
     <<S("XYZ"), N(50), N(500), N(3)>>,
     <<S("ABC : ReCert Widget"), N(100), N(90), N(10)>>,
     <<S("DEF : Gadget"), N(300), N(250), N(8)>> >>

SalesGridA ==
  << <<S("Item"), S("Description"), S("Qty"), S("Amount")>>,
     <<S("ABC-ReCert"), S("Widget"), N(700), N(7000)>>,
     <<S("XYZ"), S("Thing"), N(5), N(250)>>,
     <<S("ABC-ReCert"), S("Widget again"), N(30), N(300)>>,
     <<S("Inventory Item"), EmptyCell, N(3), N(1)>>,
     <<S("QQQ"), EmptyCell, N(0), N(10)>> >>

SalesGridB ==
  << <<S("Item Name"), S("Memo"), S("Quantity Sold"), S("Net Amount")>>,
     <<S("ABC : ReCert Widget"), EmptyCell, N(30), N(3000)>>,
     <<S("ABC-ReCert"), EmptyCell, N(20), N(2000)>>,
     <<S("ABC-New"), EmptyCell, N(10), N(1000)>>,
     <<S("XYZ"), EmptyCell, N(730), S("n/a")>>,
     <<S("DEF"), EmptyCell, N(1), N(9)>> >>

SalesGridC ==
  << <<S("Sales by Item")>>,
     <<S("Item"), S("Description"), S("Qty"), S("Amount")>>,
     <<S("ABC"), S("Widget"), N(40), S("n/a")>>,
     <<S("DEF"), EmptyCell, S("12"), N(60)>>,
     <<S("XYZ"), EmptyCell, S("n/a"), N(5)>>,
     <<S("Item"), S("Description"), S("Qty"), S("Amount")>>,
     <<S("GHI"), EmptyCell, N(7), N(70)>> >>

SalesGridD ==
  << <<S("Item Code"), S("Qty Shipped"), S("Total (USD)")>>,
     <<S("XYZ"), N(36), N(72)>>,
     <<S("ABC"), N(9), N(18)>> >>

CustomerGridA ==
  << <<S("Customer"), S("Amount")>>,
     <<S("Acme Corp"), N(5000)>>,
     <<S("Total - Acme Corp"), N(1000)>>,
     <<S("TOTAL - IC-West"), N(300)>>,
     <<S("total - Bolt Ltd"), N(2000)>>,
     <<S("Total - Zero Inc"), N(0)>> >>

CustomerGridB ==
  << <<S("Account Name"), S(" Customer"), S("Total Due"), S("Amount")>>,
     <<S("A-1"), S("Total - Intercompany Sales"), N(1), N(10)>>,
     <<S("A-2"), S("Total - Acme Corp"), N(2), N(70)>>,
     <<S("A-3"), S("Total - Bolt Ltd"), N(3), S("n/a")>>,
     <<S("A-4"), S("Total - Cog LLC"), N(4), N(90)>> >>

SupplierGridA ==
  << <<S("Vendor"), S("Item"), S("Amount"), S("Quantity"), S("Date")>>,
     <<S("Parts Co"), S("Bolt"), N(100), S("n/a"), S("2024-01-05")>>,
     <<S("Parts Co"), S("Nut"), N(800), N(8), S("2024-01-06")>>,
     <<S("Total - Parts Co"), EmptyCell, N(900), N(9), EmptyCell>>,
     <<S("Total - Internal Stores"), EmptyCell, N(50), N(1), EmptyCell>>,
     <<S("Total - Gear Inc"), EmptyCell, N(1200), S("n/a"), EmptyCell>> >>

SupplierGridB ==
  << <<S("Supplier"), S("Product"), S("Total"), S("Quantity")>>,
     <<S("Gear Inc"), S("Cog"), N(40), S("n/a")>>,
     <<S("Total - Gear Inc"), EmptyCell, N(40), N(2)>>,
     <<S("Total - Parts Co"), EmptyCell, N(75), EmptyCell>> >>

\* a sheet whose header row stands below thirty rows of preamble
SupplierGridC ==
  [i \in 1..HeaderScanRows |-> <<S("Purchases by Vendor")>>] \o SupplierGridB

File(name, ok, grid) == [name |-> name, ok |-> ok, grid |-> grid]

CostFiles ==
  { File("cost_a.csv", TRUE, CostGridA), File("cost_b.csv", TRUE, CostGridB),
    File("COST_C.CSV", TRUE, CostGridC), File("cost_bad.csv", FALSE, <<>>),
    File("cost.xlsx", TRUE, CostGridA) }

SalesFiles ==
  { File("sales_a.csv", TRUE, SalesGridA), File("sales_b.csv", TRUE, SalesGridB),
    File("sales_c.xlsx", TRUE, SalesGridC), File("sales_d.txt", TRUE, SalesGridD),
    File("sales_bad.xls", FALSE, <<>>) }

CustomerFiles ==
  { File("cust_a.csv", TRUE, CustomerGridA), File("cust_b.xlsx", TRUE, CustomerGridB),
    File("cust_bad.csv", FALSE, <<>>) }

SupplierFiles ==
  { File("supp_a.csv", TRUE, SupplierGridA), File("supp_b.xlsx", TRUE, SupplierGridB),
    File("supp_c.xls", TRUE, SupplierGridC),
    File("supp_bad.xlsx", FALSE, <<>>) }

Files == CostFiles \cup SalesFiles \cup CustomerFiles \cup SupplierFiles
FileNames == {f.name : f \in Files}
FileOf(name) == CHOOSE f \in Files : f.name = name

-----------------------------------------------------------------------------
(* The application state *)

\* the number of handler calls in a behaviour
MaxUploads == 2

Categories == {"cost", "sales", "customer", "supplier"}

SlowCostDefault == 400
DeadCostDefault == 200
SlowDaysDefault == 180
OrderingCostDefault == 50
TargetMarginDefault == Frac(30, 100)
HoldingCostRateDefault == Frac(25, 100)

VARIABLES
  costData, salesMap, customerData, supplierData,   \* the four datasets
  slowCost, deadCost, slowDays, targetMargin, orderingCost, holdingCostRate,
  status,
  computed,      \* the `computed` memo: [deps, value]
  pending,       \* the handler calls suspended in `await`
  nextId,        \* the number of handler calls made so far, plus one
  settled,       \* the handler call whose promise settled last
  lastPicked     \* per category, the file of the latest handler call

datasets == <<costData, salesMap, customerData, supplierData>>
knobs == <<slowCost, deadCost, slowDays, targetMargin, orderingCost, holdingCostRate>>
vars == <<datasets, knobs, status, computed, pending, nextId, settled, lastPicked>>

Thresholds ==
  [slowCost |-> slowCost, deadCost |-> deadCost, slowDays |-> slowDays,
   targetMargin |-> targetMargin, orderingCost |-> orderingCost,
   holdingCostRate |-> holdingCostRate]

NoCall == [id |-> 0, cat |-> "", name |-> "", result |-> "", error |-> ""]

Init ==
  /\ costData = <<>>
  /\ salesMap = <<>>
  /\ customerData = <<>>
  /\ supplierData = [suppliers |-> <<>>, lineItems |-> <<>>]
  /\ slowCost = Num(SlowCostDefault)
  /\ deadCost = Num(DeadCostDefault)
  /\ slowDays = Num(SlowDaysDefault)
  /\ targetMargin = TargetMarginDefault
  /\ orderingCost = Num(OrderingCostDefault)
  /\ holdingCostRate = HoldingCostRateDefault
  /\ status = ""
  /\ computed = [deps |-> ComputedDeps(<<>>, <<>>, Thresholds), value |-> NoComputed]
  /\ pending = {}
  /\ nextId = 1
  /\ settled = NoCall
  /\ lastPicked = [c \in Categories |-> ""]

\* what each handler stores once its parse has resolved, per file and parser
\* (tabulated: each normalization is evaluated once)
CostResults ==
  [f \in CostFiles |-> NormalizeCost(ParseCSVRows(f.grid))]

SalesResults ==
  [f \in SalesFiles |->
     [csv |-> SalesFromRows(ParseCSVRows(f.grid)), xlsx |-> SalesFromSheet(f.grid)]]

CustomerResults ==
  [f \in CustomerFiles |->
     [csv |-> CustomerFromRows(ParseCSVRows(f.grid)),
      xlsx |-> CustomerFromSheet(f.grid)]]

SupplierResults ==
  [f \in SupplierFiles |->
     [csv |-> SupplierFromRows(ParseCSVRows(f.grid)),
      xlsx |-> SupplierFromSheet(f.grid)]]

\* the thresholds as useState initialises them
DefaultThresholds ==
  [slowCost |-> Num(SlowCostDefault), deadCost |-> Num(DeadCostDefault),
   slowDays |-> Num(SlowDaysDefault), targetMargin |-> TargetMarginDefault,
   orderingCost |-> Num(OrderingCostDefault),
   holdingCostRate |-> HoldingCostRateDefault]

\* the values costData and salesMap take: the initial ones and what a handler
\* stores
CostStates == {<<>>} \cup {CostResults[f] : f \in CostFiles}
SalesStates ==
  {<<>>} \cup {SalesResults[f][p] : f \in SalesFiles, p \in {"csv", "xlsx"}}

\* the engine on those values (tabulated: each output is evaluated once)
ComputedResults ==
  [c \in CostStates |-> [s \in SalesStates |-> Computed(c, s, DefaultThresholds)]]

\* the engine's output for given inputs, read from the table where it has them
ComputedOf(cost, sales, th) ==
  IF th = DefaultThresholds /\ cost \in CostStates /\ sales \in SalesStates
  THEN ComputedResults[cost][sales]
  ELSE Computed(cost, sales, th)

\* the render that follows a handler's step: the memo is re-evaluated against
\* the state the render sees
Render ==
  computed' = UseMemo(computed,
                      ComputedDeps(costData', salesMap', Thresholds'),
                      Computed(costData', salesMap', Thresholds'))

\* ensureExt does not throw
ExtAllowed(name, allowed) ==
  \E i \in 1..Len(allowed) : EndsWith(ToLowerCase(name), allowed[i])

IsCsvName(name) == EndsWith(ToLowerCase(name), ".csv")

\* the `accept` list of each slot's file input
SlotAccepts(cat) ==
  IF cat = "cost" THEN <<".csv">> ELSE <<".csv", ".xls", ".xlsx">>

Call(cat, name, parser) == [id |-> nextId, cat |-> cat, name |-> name, parser |-> parser]

Settle(u, result, error) ==
  settled' = [id |-> u.id, cat |-> u.cat, name |-> u.name,
              result |-> result, error |-> error]

\* a handler is called with a file and runs up to its first await
Begin(cat, name, parser, text) ==
  /\ nextId <= MaxUploads
  /\ nextId' = nextId + 1
  /\ lastPicked' = [lastPicked EXCEPT ![cat] = name]
  /\ pending' = pending \cup {Call(cat, name, parser)}
  /\ status' = text
  /\ UNCHANGED <<datasets, knobs, settled>>
  /\ Render

\* handleCost up to `await parseCSV(file)`; ensureExt may throw first
HandleCost ==
  \E f \in CostFiles :
    IF ExtAllowed(f.name, <<".csv">>)
    THEN Begin("cost", f.name, "csv", "Processing cost CSV...")
    ELSE /\ nextId <= MaxUploads
         /\ nextId' = nextId + 1
         /\ lastPicked' = [lastPicked EXCEPT !["cost"] = f.name]
         /\ Settle(Call("cost", f.name, "none"), "rejected", "format")
         /\ UNCHANGED <<datasets, knobs, status, pending>>
         /\ Render

\* handleSales, handleCustomer, handleSupplier up to their await
HandleSales ==
  \E f \in SalesFiles :
    IF IsCsvName(f.name)
    THEN Begin("sales", f.name, "csv", "Processing sales CSV...")
    ELSE Begin("sales", f.name, "xlsx", "Processing sales XLS/XLSX...")

HandleCustomer ==
  \E f \in CustomerFiles :
    IF IsCsvName(f.name)
    THEN Begin("customer", f.name, "csv", "Processing customer CSV...")
    ELSE Begin("customer", f.name, "xlsx", "Processing customer XLS/XLSX...")

HandleSupplier ==
  \E f \in SupplierFiles :
    IF IsCsvName(f.name)
    THEN Begin("supplier", f.name, "csv", "Processing supplier CSV...")
    ELSE Begin("supplier", f.name, "xlsx", "Processing supplier XLS/XLSX...")

CostDataOf(u) == CostResults[FileOf(u.name)]
SalesMapOf(u) == SalesResults[FileOf(u.name)][u.parser]
CustomerDataOf(u) == CustomerResults[FileOf(u.name)][u.parser]
SupplierDataOf(u) == SupplierResults[FileOf(u.name)][u.parser]

\* the parse of a suspended call resolves and the handler runs to its end
Resumes(u, cat) ==
  /\ u \in pending /\ u.cat = cat /\ FileOf(u.name).ok
  /\ pending' = pending \ {u}
  /\ Settle(u, "fulfilled", "")
  /\ UNCHANGED <<knobs, nextId, lastPicked>>

CostParsed(u) ==
  /\ Resumes(u, "cost")
  /\ costData' = CostDataOf(u)
  /\ status' = "Cost data loaded"
  /\ UNCHANGED <<salesMap, customerData, supplierData>>
  /\ Render

\* a variant of SalesParsed that adds the new aggregates to the old mapping
SalesParsedMerging(u) ==
  /\ Resumes(u, "sales")
  /\ salesMap' = [k \in DOMAIN salesMap \cup DOMAIN SalesMapOf(u) |->
                    IF k \in DOMAIN SalesMapOf(u) THEN SalesMapOf(u)[k]
                    ELSE salesMap[k]]
  /\ status' = "Sales data loaded"
  /\ UNCHANGED <<costData, customerData, supplierData>>
  /\ Render

SalesParsed(u) ==
  /\ Resumes(u, "sales")
  /\ salesMap' = SalesMapOf(u)
  /\ status' = "Sales data loaded"
  /\ UNCHANGED <<costData, customerData, supplierData>>
  /\ Render

CustomerParsed(u) ==
  /\ Resumes(u, "customer")
  /\ customerData' = CustomerDataOf(u)
  /\ status' = "Customer data loaded"
  /\ UNCHANGED <<costData, salesMap, supplierData>>
  /\ Render

SupplierParsed(u) ==
  /\ Resumes(u, "supplier")
  /\ supplierData' = SupplierDataOf(u)
  /\ status' = "Supplier data loaded"
  /\ UNCHANGED <<costData, salesMap, customerData>>
  /\ Render

\* a variant of ParseRejected that empties the cost dataset on the way out
ParseRejectedClearing(u) ==
  /\ u \in pending /\ ~FileOf(u.name).ok
  /\ pending' = pending \ {u}
  /\ Settle(u, "rejected", "parse")
  /\ costData' = <<>>
  /\ UNCHANGED <<salesMap, customerData, supplierData, knobs, status, nextId,
                 lastPicked>>
  /\ Render

\* the parse of a suspended call rejects: the await throws, the handler's
\* promise rejects and none of its setters runs
ParseRejected(u) ==
  /\ u \in pending /\ ~FileOf(u.name).ok
  /\ pending' = pending \ {u}
  /\ Settle(u, "rejected", "parse")
  /\ UNCHANGED <<datasets, knobs, status, nextId, lastPicked>>
  /\ Render

Next ==
  \/ HandleCost
  \/ HandleSales
  \/ HandleCustomer
  \/ HandleSupplier
  \/ \E u \in pending : CostParsed(u)
  \/ \E u \in pending : SalesParsed(u)
  \/ \E u \in pending : CustomerParsed(u)
  \/ \E u \in pending : SupplierParsed(u)
  \/ \E u \in pending : ParseRejected(u)

Spec == Init /\ [][Next]_vars

-----------------------------------------------------------------------------
(* Properties *)

\* C1: a failing upload changes none of the four datasets. Every step of an
\* upload that fails (the call whose extension check throws, the call that
\* starts a parse which will reject, and the rejection itself) leaves costData,
\* salesMap, customerData and supplierData as they were.
C1_FailedUploadKeepsDatasets ==
  [][ ( \/ (settled' # settled /\ settled'.result = "rejected")
        \/ \E u \in pending' \ pending : ~FileOf(u.name).ok )
      => UNCHANGED datasets ]_vars

\* C1 happens: a parse has rejected while cost data were loaded
C1_RejectedWhileLoaded ==
  /\ settled.result = "rejected"
  /\ settled.error = "parse"
  /\ costData # <<>>

\* C2: no parser is ever at work on a file whose name does not end in one of
\* the extensions its slot accepts: such an upload fails before parsing.
C2_NoParseOfUnacceptedExtension ==
  \A u \in pending : ExtAllowed(u.name, SlotAccepts(u.cat))

\* C3: once no upload of a category is in flight, and the upload of that
\* category triggered last has succeeded, the category's dataset is the one
\* produced from that last upload, in whatever order the parses completed.
C3_LastTriggeredUploadWins ==
  \A cat \in Categories :
    LET name == lastPicked[cat]
        parser == IF IsCsvName(name) THEN "csv" ELSE "xlsx"
    IN  ( /\ name # ""
          /\ \A u \in pending : u.cat # cat
          /\ FileOf(name).ok
          /\ (cat = "cost" => ExtAllowed(name, <<".csv">>)) )
        => CASE cat = "cost" -> costData = CostResults[FileOf(name)]
             [] cat = "sales" -> salesMap = SalesResults[FileOf(name)][parser]
             [] cat = "customer" ->
                  customerData = CustomerResults[FileOf(name)][parser]
             [] cat = "supplier" ->
                  supplierData = SupplierResults[FileOf(name)][parser]

\* C4: a successful upload of a category sets that category's dataset to the
\* normalization of the new file alone, whatever the dataset held before, and
\* leaves the three other datasets and the six thresholds unchanged.
C4_SuccessReplacesWholesale ==
  [][ (settled' # settled /\ settled'.result = "fulfilled") =>
      LET f == FileOf(settled'.name)
          parser == IF IsCsvName(f.name) THEN "csv" ELSE "xlsx"
      IN  /\ UNCHANGED knobs
          /\ CASE settled'.cat = "cost" ->
                    /\ costData' = CostResults[f]
                    /\ UNCHANGED <<salesMap, customerData, supplierData>>
               [] settled'.cat = "sales" ->
                    /\ salesMap' = SalesResults[f][parser]
                    /\ UNCHANGED <<costData, customerData, supplierData>>
               [] settled'.cat = "customer" ->
                    /\ customerData' = CustomerResults[f][parser]
                    /\ UNCHANGED <<costData, salesMap, supplierData>>
               [] settled'.cat = "supplier" ->
                    /\ supplierData' = SupplierResults[f][parser]
                    /\ UNCHANGED <<costData, salesMap, customerData>> ]_vars

\* C4 happens: a sales upload has succeeded over loaded cost data, and the
\* mapping holds exactly the items of that file
C4_SalesReplacedOverCost ==
  /\ settled.result = "fulfilled"
  /\ settled.cat = "sales"
  /\ settled.name = "sales_d.txt"
  /\ costData # <<>>
  /\ DOMAIN salesMap = {"XYZ", "ABC"}

\* C5: in every state, uploads suspended in a parse or not, the classified
\* output is the engine applied to the current costData, the current salesMap
\* and the current thresholds.
C5_ComputedIsEngineOfCurrentState ==
  computed.value = ComputedOf(costData, salesMap, Thresholds)

\* C5 happens: the output is readable, from loaded cost data, while a sales
\* upload is suspended in its parse
C5_ReadableWhileSuspended ==
  /\ \E u \in pending : u.cat = "sales"
  /\ ~computed.value.isNull
  /\ Len(computed.value.items) > 0

\* C6: every derived item's annualSales is the totalQtySold of the first of
\* itemCode, itemCode-New, itemCode-ReCert, fullItem that is a key of the sales
\* mapping, and 0 when none of the four is.
C6_AnnualSalesFollowsCascade ==
  \A i \in 1..Len(computed.value.items) :
    LET it == computed.value.items[i]
        keys == <<it.itemCode, it.itemCode \o "-New", it.itemCode \o "-ReCert",
                  it.fullItem>>
        present == {j \in 1..4 : keys[j] \in DOMAIN salesMap}
    IN  it.annualSales =
          IF present = {} THEN Num(0)
          ELSE salesMap[keys[CHOOSE m \in present : \A n \in present : m <= n]]
                 .totalQtySold

\* C7: the slow movers are exactly the derived items with totalCost > slowCost,
\* (daysOfInventory > slowDays or annualSales = 0) and Quantity > 0, each as
\* often as it occurs among the items, in non-increasing order of totalCost.
C7_SlowMoversExactAndSorted ==
  LET items == computed.value.items
      slow == computed.value.slowMovers
      Meets(it) == /\ Gt(it.totalCost, slowCost)
                   /\ (Gt(it.daysOfInventory, slowDays) \/ it.annualSales = Num(0))
                   /\ Gt(it.Quantity, Num(0))
  IN  /\ \A j \in 1..Len(slow) : Meets(slow[j])
      /\ \A i \in 1..Len(items) :
           Cardinality({j \in 1..Len(slow) : slow[j] = items[i]}) =
             IF Meets(items[i])
             THEN Cardinality({k \in 1..Len(items) : items[k] = items[i]})
             ELSE 0
      /\ Len(slow) = Cardinality({i \in 1..Len(items) : Meets(items[i])})
      /\ \A j \in 1..(Len(slow) - 1) : ~Gt(slow[j + 1].totalCost, slow[j].totalCost)

\* C7 happens: two slow movers of different cost are listed, one of them
\* selling but overstocked, and another item is left out
C7_SlowMoversListed ==
  /\ Len(computed.value.slowMovers) >= 2
  /\ Len(computed.value.slowMovers) < Len(computed.value.items)
  /\ \E j \in 1..Len(computed.value.slowMovers) :
       Gt(computed.value.slowMovers[j].annualSales, Num(0))
  /\ Gt(computed.value.slowMovers[1].totalCost, computed.value.slowMovers[2].totalCost)

\* C8: on the current items and slowDays, for any two values a <= b of slowCost
\* the slow movers under b are among the slow movers under a, and no more
\* numerous.
C8_SlowMoversShrinkAsSlowCostRises ==
  LET items == computed.value.items
      costs == {Num(0), Num(400), Frac(1201, 2), Num(1500), Num(5000)}
  IN  \A a \in costs : \A b \in costs :
        Le(a, b) =>
          LET under_a == SlowMovers(items, a, slowDays)
              under_b == SlowMovers(items, b, slowDays)
          IN  /\ \A j \in 1..Len(under_b) : \E i \in 1..Len(under_a) :
                   under_a[i] = under_b[j]
              /\ Len(under_b) <= Len(under_a)

\* C8 happens: raising slowCost from 400 to 1500 drops a slow mover and keeps
\* another
C8_RaisingDropsSome ==
  /\ Len(SlowMovers(computed.value.items, Num(5000), slowDays))
       < Len(SlowMovers(computed.value.items, Num(1500), slowDays))
  /\ Len(SlowMovers(computed.value.items, Num(1500), slowDays))
       < Len(SlowMovers(computed.value.items, Num(400), slowDays))

\* C9: a derived item with annualSales = 0 has infinite daysOfInventory and
\* daysUntilStockout, whatever its quantity, and is in neither stockout list.
C9_NoSalesMeansInfiniteDays ==
  \A i \in 1..Len(computed.value.items) :
    LET it == computed.value.items[i] IN
    it.annualSales = Num(0) =>
      /\ it.daysOfInventory = Infinity
      /\ it.daysUntilStockout = Infinity
      /\ \A j \in 1..Len(computed.value.criticalStockouts) :
           computed.value.criticalStockouts[j] # it
      /\ \A j \in 1..Len(computed.value.warningStockouts) :
           computed.value.warningStockouts[j] # it

\* C9 happens: among the derived items, while sales are loaded, one without
\* sales has quantity 0 and another a negative quantity
C9_NoSalesAtZeroQuantity ==
  /\ salesMap # <<>>
  /\ \E i \in 1..Len(computed.value.items) :
       /\ computed.value.items[i].annualSales = Num(0)
       /\ computed.value.items[i].Quantity = Num(0)
  /\ \E i \in 1..Len(computed.value.items) :
       /\ computed.value.items[i].annualSales = Num(0)
       /\ Gt(Num(0), computed.value.items[i].Quantity)

\* C10: no numeric field of any stored dataset holds NaN.
C10_NoStoredNaN ==
  /\ \A i \in 1..Len(costData) :
       \A f \in {"unitPrice", "unitCost", "Quantity", "profitPerUnit",
                 "profitMargin", "totalProfit", "totalRevenue", "totalCost"} :
         ~IsNaN(costData[i][f])
  /\ \A k \in DOMAIN salesMap :
       ~IsNaN(salesMap[k].totalQtySold) /\ ~IsNaN(salesMap[k].totalRevenue)
  /\ \A i \in 1..Len(customerData) : ~IsNaN(customerData[i].totalRevenue)
  /\ \A i \in 1..Len(supplierData.suppliers) :
       /\ ~IsNaN(supplierData.suppliers[i].totalCost)
       /\ ~IsNaN(supplierData.suppliers[i].totalQuantity)
  /\ \A i \in 1..Len(supplierData.lineItems) :
       /\ ~IsNaN(supplierData.lineItems[i].totalCost)
       /\ ~IsNaN(supplierData.lineItems[i].quantity)

\* C11: for sales, customer and supplier, a table whose header is its row 0
\* gives the same stored dataset on the delimited-text path and on the
\* spreadsheet path: the dataset a successful upload has just stored is also
\* what the other path makes of the same table.
C11_BothPathsStoreTheSame ==
  (settled.result = "fulfilled" /\ settled.cat \in {"sales", "customer", "supplier"}) =>
    LET f == FileOf(settled.name)
        other == IF IsCsvName(f.name) THEN "xlsx" ELSE "csv"
    IN  CASE settled.cat = "sales" ->
               findHeaderRow(f.grid, SalesExpected) = 0
                 => salesMap = SalesResults[f][other]
          [] settled.cat = "customer" ->
               findHeaderRow(f.grid, CustomerExpected) = 0
                 => customerData = CustomerResults[f][other]
          [] settled.cat = "supplier" ->
               findHeaderRow(f.grid, SupplierExpected) = 0
                 => supplierData = SupplierResults[f][other]

\* per customer file (tabulated): for every data row whose label starts with
\* "total - ", whose amount is > 0 and whose name is not an intercompany one,
\* the entry the rule gives it
CustomerTotalsOf ==
  [file \in {f.name : f \in CustomerFiles} |->
    LET grid == FileOf(file).grid
        header == HeaderOf(grid)
        label(i) == StringOrEmpty(At(grid[i], findCol(header, CustomerName)))
        amount(i) == ToNumber(At(grid[i], findCol(header, CustomerAmount)))
        name(i) == SubSeq(label(i), 9, Len(label(i)))
        Listed(i) ==
          /\ Len(label(i)) >= 8
          /\ ToLowerCase(SubSeq(label(i), 1, 8)) = "total - "
          /\ Gt(amount(i), Num(0))
          /\ ~Includes(ToLowerCase(name(i)), "ic-")
          /\ ~Includes(ToLowerCase(name(i)), "intercompany")
          /\ ~Includes(ToLowerCase(name(i)), "inter-company")
    IN  [i \in {i \in 2..Len(grid) : Listed(i)} |->
           [customer |-> name(i), totalRevenue |-> amount(i)]]]

\* C12: the customerData a successful customer upload has just stored holds
\* exactly one entry per data row whose label starts with "total - " (in any
\* case), whose amount is > 0 and whose label, the prefix removed, contains
\* none of "ic-", "intercompany", "inter-company" (in any case); the entry is
\* that name with that amount, the entries are in non-increasing order of
\* totalRevenue, and no row without the prefix has an entry.
C12_CustomerTotalsExactAndSorted ==
  (settled.result = "fulfilled" /\ settled.cat = "customer") =>
    LET entry == CustomerTotalsOf[settled.name]
        rows == DOMAIN entry
    IN  /\ Len(customerData) = Cardinality(rows)
        /\ \A j \in 1..Len(customerData) : \E i \in rows : customerData[j] = entry[i]
        /\ \A i \in rows :
             Cardinality({j \in 1..Len(customerData) : customerData[j] = entry[i]})
               = Cardinality({k \in rows : entry[k] = entry[i]})
        /\ \A j \in 1..(Len(customerData) - 1) :
             ~Gt(customerData[j + 1].totalRevenue, customerData[j].totalRevenue)

\* C12 happens: from a table with a row without the prefix, an intercompany
\* total and a zero total, two totals are stored, in the reverse of their
\* order in the file
C12_TwoTotalsStored ==
  /\ settled.result = "fulfilled"
  /\ settled.name = "cust_a.csv"
  /\ customerData = << [customer |-> "Bolt Ltd", totalRevenue |-> Num(2000)],
                       [customer |-> "Acme Corp", totalRevenue |-> Num(1000)] >>

\* the category whose slot offers the file
CategoryOf(f) ==
  CASE f \in CostFiles -> "cost"
    [] f \in SalesFiles -> "sales"
    [] f \in CustomerFiles -> "customer"
    [] f \in SupplierFiles -> "supplier"

\* the alias lists a category's handler hands to pick and findCol
AliasListsOf(cat) ==
  CASE cat = "cost" ->
         {<<"Item">>, <<"Average Item Rate">>,
          <<"Average of Est. Unit Cost">>, <<"Quantity", "Qty">>}
    [] cat = "sales" -> {SalesItemCsv, SalesItemXls, SalesDesc, SalesQty, SalesRev}
    [] cat = "customer" -> {CustomerName, CustomerAmount}
    [] cat = "supplier" ->
         {SupplierVendor, SupplierItem, SupplierTotal, SupplierQty, <<"Date">>}

\* per file (tabulated): on every row and on the header of its table, and for
\* every alias list of its handler, pick and findCol answer as the two-phase
\* rule, restated on key positions, says
TwoPhaseRuleHolds ==
  [name \in FileNames |->
    LET grid == FileOf(name).grid
        norm(x) == Trim(ToLowerCase(x))
        least(Q) == CHOOSE m \in Q : \A n \in Q : m <= n
        \* the positions of the keys equal to alias j, of the aliases equal to
        \* some key, and of the keys containing some alias
        at(ks, as, j) == {i \in 1..Len(ks) : norm(ks[i]) = norm(as[j])}
        equal(ks, as) == {j \in 1..Len(as) : at(ks, as, j) # {}}
        holding(ks, as) ==
          {i \in 1..Len(ks) : \E j \in 1..Len(as) : Includes(norm(ks[i]), norm(as[j]))}
        position(ks, as) ==
          IF equal(ks, as) # {} THEN least(at(ks, as, least(equal(ks, as))))
          ELSE IF holding(ks, as) # {} THEN least(holding(ks, as))
          ELSE 0
        rows == ParseCSVRows(grid)
        header == HeaderOf(grid)
    IN  \A as \in AliasListsOf(CategoryOf(FileOf(name))) :
          /\ \A r \in 1..Len(rows) :
               LET ks == [i \in 1..Len(rows[r]) |-> rows[r][i].k]
                   p == position(ks, as)
               IN  pick(rows[r], as) = IF p = 0 THEN Undef ELSE rows[r][p].v
          /\ findCol(header, as) = position(header, as) - 1]

\* C13: on every row and header of the table a successful upload read, and
\* for every alias list of its handler, pick and findCol compare keys and
\* aliases lower-cased and trimmed and answer in two phases: the value (the
\* index) under the first alias, in caller order, that equals a key; only if
\* no alias equals a key, the value (the index) of the first key, in row
\* order, that contains an alias; and undefined (-1) if there is none.
C13_PickAndFindColTwoPhase ==
  settled.result = "fulfilled" => TwoPhaseRuleHolds[settled.name]

\* C13 happens: a customer table was read in which a key containing an alias
\* ("Account Name", "Total Due") stands before the key equal to one
\* (" Customer", "Amount"), and the equal key was taken
C13_EqualKeyBeatsEarlierContainingKey ==
  /\ settled.result = "fulfilled"
  /\ settled.name = "cust_b.xlsx"
  /\ findCol(HeaderOf(CustomerGridB), CustomerName) = 1
  /\ findCol(HeaderOf(CustomerGridB), CustomerAmount) = 3
  /\ pick(ParseCSVRows(CustomerGridB)[2], CustomerName) = Str("Total - Acme Corp")
  /\ Len(customerData) = 2

\* C14: after a successful cost upload every item held in costData has a
\* unit price of at least 0, a unit cost of at least 0 and a quantity that is
\* an integer of at least 0, whatever numbers the rows of the file held.
C14_CostItemsNonNegative ==
  (settled.result = "fulfilled" /\ settled.cat = "cost") =>
    \A i \in 1..Len(costData) :
      /\ costData[i].unitPrice.t = "num" /\ costData[i].unitPrice.n >= 0
      /\ costData[i].unitCost.t = "num" /\ costData[i].unitCost.n >= 0
      /\ costData[i].Quantity.t = "num"
      /\ costData[i].Quantity.n >= 0
      /\ costData[i].Quantity.d = 1

\* the expected header tokens of a category's spreadsheet path
ExpectedOf(cat) ==
  CASE cat = "sales" -> SalesExpected
    [] cat = "customer" -> CustomerExpected
    [] cat = "supplier" -> SupplierExpected

\* per file read on the spreadsheet path (tabulated): findHeaderRow gives the
\* first row of the window that holds enough of the expected tokens, else 0
FirstInWindowRuleHolds ==
  [name \in {f.name : f \in SalesFiles \cup CustomerFiles \cup SupplierFiles} |->
    LET grid == FileOf(name).grid
        expected == ExpectedOf(CategoryOf(FileOf(name)))
        r == findHeaderRow(grid, expected)
        tokensIn(i) ==
          {h \in 1..Len(expected) :
             \E c \in 1..Len(grid[i + 1]) :
               ToLowerCase(StringOf(grid[i + 1][c])) = ToLowerCase(expected[h])}
        qualifies(i) == 2 * Cardinality(tokensIn(i)) >= Len(expected)
        window == {i \in 0..(Len(grid) - 1) : i < HeaderScanRows}
    IN  /\ r < HeaderScanRows
        /\ IF \E i \in window : qualifies(i)
           THEN /\ r \in window
                /\ qualifies(r)
                /\ \A j \in 0..(r - 1) : ~qualifies(j)
           ELSE r = 0]

\* C15: on the sheet a successful spreadsheet upload read, findHeaderRow gives
\* the smallest row index i < min(rowCount, 30) at which the number of
\* expected tokens equal, in any case, to some cell of row i is at least
\* ceil(0.5 * the number of expected tokens); it gives 0 when no row of that
\* window qualifies; it never gives an index >= 30 or one after an earlier
\* qualifying row.
C15_FindHeaderRowFirstInWindow ==
  (/\ settled.result = "fulfilled"
   /\ settled.cat \in {"sales", "customer", "supplier"}
   /\ ~IsCsvName(settled.name)) => FirstInWindowRuleHolds[settled.name]

\* C15 happens: the sheet just read has a title row above its header row and
\* the header row again further down, and the rows below the first header row
\* were the ones aggregated
C15_HeaderBelowTitleRow ==
  /\ settled.result = "fulfilled"
  /\ settled.name = "sales_c.xlsx"
  /\ findHeaderRow(SalesGridC, SalesExpected) = 1
  /\ findHeaderRowWholeSheet(SalesGridC, SalesExpected) = 1
  /\ DOMAIN salesMap = {"ABC", "DEF", "GHI"}

\* C16: every aggregate stored in salesMap has a non-empty key other than
\* "Inventory Item" and a totalQtySold > 0, and a derived item has
\* annualSales = 0 if and only if none of itemCode, itemCode-New,
\* itemCode-ReCert, fullItem is a key of salesMap.
C16_AggregatesPositiveAndZeroIffAbsent ==
  /\ \A k \in DOMAIN salesMap :
       /\ Len(k) > 0
       /\ k # "Inventory Item"
       /\ salesMap[k].item = k
       /\ Gt(salesMap[k].totalQtySold, Num(0))
  /\ \A i \in 1..Len(computed.value.items) :
       LET it == computed.value.items[i]
           keys == <<it.itemCode, it.itemCode \o "-New", it.itemCode \o "-ReCert",
                     it.fullItem>>
       IN  (it.annualSales = Num(0)) <=> (\A j \in 1..4 : keys[j] \notin DOMAIN salesMap)

=============================================================================
